---------------------------- MODULE Spec2Model ----------------------------
(***************************************************************************)
(* Model of the paper-to-video pipeline of src/main.py: the model resolver *)
(* (pick_working_model), the digest and slide builders (build_slides,      *)
(* build_slide_scripts), the video assembler (generate_video) and the      *)
(* orchestrator (main).                                                    *)
(*                                                                         *)
(* Texts are sequences of one-character strings; model names are sequences *)
(* of tokens (" " for a whitespace character, "models/" for the prefix).   *)
(* Durations are in tenths of a second.                                    *)
(***************************************************************************)
EXTENDS Integers, Sequences, FiniteSets, TLC

VARIABLES
    pc,            \* position of the run (or of the function under test)
    papers,        \* main: feed entries, most recent first
    entry,         \* main: the entry carried through production
    pdf_path,      \* main: result of download_pdf (NoPath for None)
    text,          \* main: number of characters extract_text_from_pdf returned
    api_key,       \* GEMINI_API_KEY is non-empty
    models,        \* pick_working_model: the capability list of the service
    preferred,     \* pick_working_model: the preferred model name
    chosen,        \* pick_working_model: its outcome
    title,         \* title of the paper
    summary,       \* text returned by the summarization service
    bullets,       \* build_slides: the bullets after padding
    slide_files,   \* slide images, in order
    slide_scripts, \* narration scripts, in order
    audio_files,   \* narration clips, in order
    video,         \* generate_video: its outcome
    trace,         \* main: the operations performed so far, in order
    files          \* main: artifacts written to the output directory

vars == << pc, papers, entry, pdf_path, text, api_key, models, preferred,
           chosen, title, summary, bullets, slide_files, slide_scripts,
           audio_files, video, trace, files >>

(***************************************************************************)
(* Bounds of the model.                                                    *)
(***************************************************************************)
MaxModels == 3
MaxLines == 4
MaxClips == 3
MaxDur == 2

SeqsUpTo(S, n) == UNION { [1..k -> S] : k \in 0..n }

Min(a, b) == IF a <= b THEN a ELSE b

(***************************************************************************)
(* str.strip(): whitespace removed from both ends.                         *)
(***************************************************************************)
Whitespace == { " ", "\t", "\n" }

RECURSIVE LStrip(_, _)
LStrip(s, cs) ==
    IF s # << >> /\ Head(s) \in cs THEN LStrip(Tail(s), cs) ELSE s

RECURSIVE RStrip(_, _)
RStrip(s, cs) ==
    IF s # << >> /\ s[Len(s)] \in cs
    THEN RStrip(SubSeq(s, 1, Len(s) - 1), cs)
    ELSE s

Strip(s, cs) == RStrip(LStrip(s, cs), cs)

(***************************************************************************)
(* Model resolver.                                                         *)
(***************************************************************************)
normalize_model_name(model) ==
    LET m == Strip(model, Whitespace)
    IN  IF m # << >> /\ Head(m) = "models/" THEN m ELSE << "models/" >> \o m

Resolved(name) == [status |-> "ok", name |-> name]

NoUsableModel == [status |-> "NoUsableModel", name |-> << >>]

\* first loop of pick_working_model, from entry i on
RECURSIVE PreferredScan(_, _, _)
PreferredScan(ms, preferred_norm, i) ==
    IF i > Len(ms) THEN FALSE
    ELSE IF ms[i].name = preferred_norm
            /\ "generateContent" \in ms[i].supportedGenerationMethods
         THEN TRUE
         ELSE PreferredScan(ms, preferred_norm, i + 1)

\* second loop of pick_working_model, from entry i on
RECURSIVE FallbackScan(_, _)
FallbackScan(ms, i) ==
    IF i > Len(ms) THEN NoUsableModel
    ELSE IF "generateContent" \in ms[i].supportedGenerationMethods
         THEN Resolved(ms[i].name)
         ELSE FallbackScan(ms, i + 1)

\* a resolver that ignores the preference
pick_first_capable(ms, pref) == FallbackScan(ms, 1)

\* a resolver that accepts the preferred entry without looking at its methods
pick_by_name_only(ms, pref) ==
    IF \E i \in 1..Len(ms) : ms[i].name = normalize_model_name(pref)
    THEN Resolved(normalize_model_name(pref))
    ELSE FallbackScan(ms, 1)

\* a resolver whose fallback takes the last capable entry
RECURSIVE LastCapable(_, _)
LastCapable(ms, i) ==
    IF i < 1 THEN NoUsableModel
    ELSE IF "generateContent" \in ms[i].supportedGenerationMethods
         THEN Resolved(ms[i].name)
         ELSE LastCapable(ms, i - 1)

pick_last_capable(ms, pref) ==
    IF PreferredScan(ms, normalize_model_name(pref), 1)
    THEN Resolved(normalize_model_name(pref))
    ELSE LastCapable(ms, Len(ms))

pick_working_model(ms, pref) ==
    LET preferred_norm == normalize_model_name(pref)
    IN  IF PreferredScan(ms, preferred_norm, 1)
        THEN Resolved(preferred_norm)
        ELSE FallbackScan(ms, 1)

(***************************************************************************)
(* Inputs of the resolver.                                                 *)
(***************************************************************************)
ModelNames ==
    { << "models/", "gemini-2.5-flash" >>,
      << "models/", "gemini-1.5-flash" >>,
      << "models/", "embedding-001" >> }

MethodSets ==
    { {}, { "embedContent" }, { "generateContent", "countTokens" } }

ModelCapability == [name : ModelNames, supportedGenerationMethods : MethodSets]

PreferredNames ==
    { << "gemini-2.5-flash" >>,
      << "models/", "gemini-1.5-flash" >>,
      << " ", "gemini-1.5-flash", " " >>,
      << "gemini-pro" >> }

NoPaper == [id |-> 0, title |-> << >>]

\* download_pdf returned None
NoPath == [ok |-> FALSE, paper |-> 0]

NoVideo == [status |-> "none", clips |-> << >>, duration |-> 0]

InitResolver ==
    /\ pc = "resolve"
    /\ models \in SeqsUpTo(ModelCapability, MaxModels)
    /\ preferred \in PreferredNames
    /\ chosen = [status |-> "none", name |-> << >>]
    /\ api_key = TRUE
    /\ papers = << >> /\ entry = NoPaper /\ pdf_path = NoPath /\ text = 0
    /\ title = << >> /\ summary = << >> /\ bullets = << >>
    /\ slide_files = << >> /\ slide_scripts = << >> /\ audio_files = << >>
    /\ video = NoVideo /\ trace = << >> /\ files = {}

\* a call pick_working_model(preferred) on the list the service returned
ResolverCall ==
    /\ pc = "resolve"
    /\ chosen' = pick_working_model(models, preferred)
    /\ pc' = "resolved"
    /\ UNCHANGED << papers, entry, pdf_path, text, api_key, models, preferred,
                    title, summary, bullets, slide_files, slide_scripts,
                    audio_files, video, trace, files >>

NextResolver == ResolverCall

SpecResolver == InitResolver /\ [][NextResolver]_vars

(***************************************************************************)
(* Video assembler.  An audio file is [path, duration], the duration being *)
(* the one AudioFileClip measures, with the text it speaks; a slide file   *)
(* is [path, text, header, body].                                          *)
(***************************************************************************)
Pad == 2

\* zip(slide_files, audio_files): pairs up to the shorter length
Zip(a, b) == [i \in 1..Min(Len(a), Len(b)) |-> << a[i], b[i] >>]

\* ImageClip(img).set_duration(audio.duration + 0.2).set_audio(audio)
MakeClip(img, audio) ==
    [img |-> img, audio |-> audio, duration |-> audio.duration + Pad, start |-> 0]

\* a clip shown for the narration alone, without the pad
MakeClipNoPad(img, audio) ==
    [img |-> img, audio |-> audio, duration |-> audio.duration, start |-> 0]

\* concatenate_videoclips(clips, method="compose"): clip i starts where clip
\* i-1 ends; t is the time reached before clip i
RECURSIVE Concatenate(_, _, _)
Concatenate(clips, i, t) ==
    IF i > Len(clips) THEN [clips |-> << >>, duration |-> t]
    ELSE LET rest == Concatenate(clips, i + 1, t + clips[i].duration)
         IN  [clips |-> << [clips[i] EXCEPT !.start = t] >> \o rest.clips,
              duration |-> rest.duration]

\* generate_video with one clip per pair and no pad
generate_video_no_pad(slides, audios, encode_ok) ==
    LET pairs == Zip(slides, audios)
        clips == [i \in 1..Len(pairs) |-> MakeClipNoPad(pairs[i][1], pairs[i][2])]
        final == Concatenate(clips, 1, 0)
    IN  IF clips = << >>
        THEN [status |-> "ConcatFailed", clips |-> << >>, duration |-> 0]
        ELSE [status |-> IF encode_ok THEN "written" ELSE "EncodeFailed",
              clips |-> final.clips, duration |-> final.duration]

\* generate_video: the composite built at line 323 and the outcome of writing
\* it.  concatenate_videoclips raises on an empty clip list.
generate_video(slides, audios, encode_ok) ==
    LET pairs == Zip(slides, audios)
        clips == [i \in 1..Len(pairs) |-> MakeClip(pairs[i][1], pairs[i][2])]
        final == Concatenate(clips, 1, 0)
    IN  IF clips = << >>
        THEN [status |-> "ConcatFailed", clips |-> << >>, duration |-> 0]
        ELSE [status |-> IF encode_ok THEN "written" ELSE "EncodeFailed",
              clips |-> final.clips, duration |-> final.duration]

SlideFile(i) == [path |-> i, text |-> << >>, header |-> << >>, body |-> << >>]

AudioFile(i, d, txt) == [path |-> i, duration |-> d, text |-> txt]

InitVideo ==
    /\ pc = "assemble"
    /\ \E n \in 0..MaxClips : slide_files = [i \in 1..n |-> SlideFile(i)]
    /\ \E m \in 0..MaxClips : \E ds \in [1..m -> 1..MaxDur] :
          audio_files = [i \in 1..m |-> AudioFile(i, ds[i], << >>)]
    /\ video = NoVideo
    /\ files = {}
    /\ api_key = TRUE /\ models = << >> /\ preferred = << >>
    /\ chosen = [status |-> "none", name |-> << >>]
    /\ papers = << >> /\ entry = NoPaper /\ pdf_path = NoPath /\ text = 0
    /\ title = << >> /\ summary = << >> /\ bullets = << >>
    /\ slide_scripts = << >> /\ trace = << >>

\* a call generate_video(slide_files, audio_files, out_mp4)
VideoCall ==
    /\ pc = "assemble"
    /\ \E encode_ok \in BOOLEAN :
          /\ video' = generate_video(slide_files, audio_files, encode_ok)
          /\ files' = IF video'.status = "written" THEN files \cup { << "video", 0 >> }
                      ELSE files
    /\ pc' = "assembled"
    /\ UNCHANGED << papers, entry, pdf_path, text, api_key, models, preferred,
                    chosen, title, summary, bullets, slide_files,
                    slide_scripts, audio_files, trace >>

NextVideo == VideoCall

SpecVideo == InitVideo /\ [][NextVideo]_vars

\* failures of the assembler raised before any clip is shown
AssemblyFailures == { "AssemblyMismatch", "ConcatFailed" }

\* C4: with sequences of different lengths assembly fails (AssemblyMismatch),
\* no clip is built from a truncated pairing and no video file is written.
\* Runs in which the encoder itself fails are left aside.
C4_MismatchFails ==
    (pc = "assembled" /\ Len(slide_files) # Len(audio_files)
        /\ video.status # "EncodeFailed")
        => /\ video.status \in AssemblyFailures
           /\ video.clips = << >>
           /\ << "video", 0 >> \notin files

RECURSIVE SumDurations(_)
SumDurations(as) ==
    IF as = << >> THEN 0 ELSE Head(as).duration + Pad + SumDurations(Tail(as))

BulletCap == 35

MiddleDot == "middle-dot"

Kuten == "kuten"

BulletMarkers == { " ", "-", MiddleDot }

Placeholder == << "(", "n", "o", "n", "e", ")" >>

Closing == << "t", "h", "a", "n", "k", "s" >>

\* "\n".join(lines)
RECURSIVE Join(_)
Join(ls) ==
    IF ls = << >> THEN << >>
    ELSE IF Len(ls) = 1 THEN ls[1]
    ELSE ls[1] \o << "\n" >> \o Join(Tail(ls))

\* s.split("\n"): the pieces between consecutive newlines, one more than
\* there are newlines
NewlinesIn(s) == { i \in 1..Len(s) : s[i] = "\n" }

\* position of the k-th newline of s; 0 for k = 0, Len(s) + 1 past the last
NewlineAt(s, k) ==
    IF k = 0 THEN 0
    ELSE IF k > Cardinality(NewlinesIn(s)) THEN Len(s) + 1
    ELSE CHOOSE p \in NewlinesIn(s) :
            Cardinality({ q \in NewlinesIn(s) : q <= p }) = k

Split(s) ==
    [k \in 1..(Cardinality(NewlinesIn(s)) + 1) |->
        SubSeq(s, NewlineAt(s, k - 1) + 1, NewlineAt(s, k) - 1)]

\* [s.strip(" -・") for s in summary.split("\n") if s.strip()]
RECURSIVE StripLines(_)
StripLines(ls) ==
    IF ls = << >> THEN << >>
    ELSE IF Strip(Head(ls), Whitespace) # << >>
         THEN << Strip(Head(ls), BulletMarkers) >> \o StripLines(Tail(ls))
         ELSE StripLines(Tail(ls))

\* while len(bullets) < 3: bullets.append(pad)
RECURSIVE PadTo3(_, _)
PadTo3(bs, pad) == IF Len(bs) < 3 THEN PadTo3(Append(bs, pad), pad) ELSE bs

SlideBullets(summ) == PadTo3(StripLines(Split(summ)), Placeholder)

ScriptBullets(summ) == PadTo3(StripLines(Split(summ)), << >>)

Heading(k) == << "P", "O", "I", "N", "T", " ", k >>

\* one POINT slide per bullet of the list, however many there are
slide_texts_per_bullet(ttl, bs) ==
    << << "T", "I", "T", "L", "E", "\n" >> \o ttl >>
    \o [k \in 1..Len(bs) |->
           Heading(CASE k = 1 -> "1" [] k = 2 -> "2" [] k = 3 -> "3"
                     [] OTHER -> "n") \o << "\n" >> \o bs[k]]
    \o << << "E", "N", "D", "\n" >> \o Closing >>

\* slide_texts of build_slides
slide_texts(ttl, bs) ==
    << << "T", "I", "T", "L", "E", "\n" >> \o ttl,
       Heading("1") \o << "\n" >> \o bs[1],
       Heading("2") \o << "\n" >> \o bs[2],
       Heading("3") \o << "\n" >> \o bs[3],
       << "E", "N", "D", "\n" >> \o Closing >>

\* lines.split("\n", 1): the part before the first newline and the rest
RECURSIVE FirstNewline(_, _)
FirstNewline(s, i) ==
    IF i > Len(s) THEN 0
    ELSE IF s[i] = "\n" THEN i ELSE FirstNewline(s, i + 1)

\* create_slide_image: the image file, with the header and the body drawn
create_slide_image(lines, i) ==
    LET n == FirstNewline(lines, 1)
        first == IF n = 0 THEN lines ELSE SubSeq(lines, 1, n - 1)
        rest == IF n = 0 THEN << >> ELSE SubSeq(lines, n + 1, Len(lines))
    IN  [path |-> i, text |-> lines,
         header |-> Strip(first, Whitespace), body |-> Strip(rest, Whitespace)]

build_slides(ttl, summ) ==
    LET ts == slide_texts(ttl, SlideBullets(summ))
    IN  [i \in 1..Len(ts) |-> create_slide_image(ts[i], i)]

build_slide_scripts(ttl, summ) ==
    LET bs == ScriptBullets(summ)
    IN  << << "intro" >> \o ttl \o << Kuten >>,
           << "point", "1", Kuten >> \o bs[1] \o << Kuten >>,
           << "point", "2", Kuten >> \o bs[2] \o << Kuten >>,
           << "point", "3", Kuten >> \o bs[3] \o << Kuten >>,
           << "outro" >> >>

(***************************************************************************)
(* Inputs of the slide builders: texts the service may return, as lines.   *)
(***************************************************************************)
LongBullet == [i \in 1..(BulletCap + 1) |-> "a"]

ServiceLines ==
    { << "-", " ", "a", " ", "b" >>,
      << MiddleDot, "b", "-" >>,
      << " ", " " >>,
      << >>,
      << "-" >>,
      << "\t", "c" >>,
      << "-", " " >> \o LongBullet }

Titles == { << "A", " ", "B" >>, << "A", "\n", "B" >> }

\* gemini_summarize_ja returns the service's text stripped
ServiceSummaries ==
    { Strip(Join(ls), Whitespace) : ls \in SeqsUpTo(ServiceLines, MaxLines) }

InitSlides ==
    /\ pc = "build_slides"
    /\ title \in Titles
    /\ summary \in ServiceSummaries
    /\ bullets = << >>
    /\ slide_files = << >>
    /\ slide_scripts = << >>
    /\ files = {}
    /\ api_key = TRUE /\ models = << >> /\ preferred = << >>
    /\ chosen = [status |-> "none", name |-> << >>]
    /\ papers = << >> /\ entry = NoPaper /\ pdf_path = NoPath /\ text = 0
    /\ audio_files = << >> /\ video = NoVideo /\ trace = << >>

\* a call build_slides(title, summary)
BuildSlidesCall ==
    /\ pc = "build_slides"
    /\ bullets' = SlideBullets(summary)
    /\ slide_files' = build_slides(title, summary)
    /\ files' = files \cup { << "slide", i >> : i \in 1..Len(slide_files') }
    /\ pc' = "build_scripts"
    /\ UNCHANGED << papers, entry, pdf_path, text, api_key, models, preferred,
                    chosen, title, summary, slide_scripts, audio_files,
                    video, trace >>

\* a call build_slide_scripts(title, summary)
BuildScriptsCall ==
    /\ pc = "build_scripts"
    /\ slide_scripts' = build_slide_scripts(title, summary)
    /\ pc' = "built"
    /\ UNCHANGED << papers, entry, pdf_path, text, api_key, models, preferred,
                    chosen, title, summary, bullets, slide_files,
                    audio_files, video, trace, files >>

NextSlides == BuildSlidesCall \/ BuildScriptsCall

SpecSlides == InitSlides /\ [][NextSlides]_vars

\* number of non-blank lines of a text
RECURSIVE NonBlank(_)
NonBlank(ls) ==
    IF ls = << >> THEN 0
    ELSE (IF Strip(Head(ls), Whitespace) # << >> THEN 1 ELSE 0)
         + NonBlank(Tail(ls))

\* C6: whatever text the service returned, the digest (the bullets that
\* reach the slides) has exactly 3 bullets, padded with the placeholder when
\* fewer than 3 lines were returned, and no bullet is longer than the
\* character cap.
C6_DigestShape ==
    pc \in { "build_scripts", "built" } =>
        LET digest == SubSeq(bullets, 1, Min(3, Len(bullets)))
        IN  /\ Len(digest) = 3
            /\ \A k \in 1..Len(digest) :
                  /\ Len(digest[k]) <= BulletCap
                  /\ k > NonBlank(Split(summary)) => digest[k] = Placeholder

\* C7: the slide sequence has between 1 and 5 slides, the first is the title
\* slide, the last is the closing slide and the middle slides are the
\* "Point k" slides carrying digest bullet k in order.
C7_SlideSequence ==
    pc \in { "build_scripts", "built" } =>
        LET n == Len(slide_files)
        IN  /\ 1 <= n /\ n <= 5
            /\ slide_files[1].text = << "T", "I", "T", "L", "E", "\n" >> \o title
            /\ slide_files[1].header = << "T", "I", "T", "L", "E" >>
            /\ slide_files[n].text = << "E", "N", "D", "\n" >> \o Closing
            /\ slide_files[n].header = << "E", "N", "D" >>
            /\ n - 2 = 3
            /\ \A k \in 1..(n - 2) :
                  /\ slide_files[k + 1].header = Heading(<< "1", "2", "3" >>[k])
                  /\ slide_files[k + 1].text
                        = Heading(<< "1", "2", "3" >>[k]) \o << "\n" >> \o bullets[k]
            /\ \A i \in 1..n : slide_files[i].path = i

C7_Witness ==
    /\ pc = "built"
    /\ NonBlank(Split(summary)) = 2
    /\ Len(slide_files) = 5
    /\ slide_files[2].body = << "a", " ", "b" >>
    /\ slide_files[3].body = << "b" >>
    /\ slide_files[4].body = Placeholder
    /\ title = << "A", "\n", "B" >>

Capable(m) == "generateContent" \in m.supportedGenerationMethods

PreferredUsable ==
    \E i \in 1..Len(models) :
        models[i].name = normalize_model_name(preferred) /\ Capable(models[i])

\* C1: whenever the list holds an entry with the normalized preferred name
\* and generation support, the resolver returns exactly that name, wherever
\* the entry stands and whatever capable entries precede it.
C1_PreferredMatch ==
    (pc = "resolved" /\ PreferredUsable)
        => chosen = Resolved(normalize_model_name(preferred))

C1_Witness ==
    /\ pc = "resolved"
    /\ Len(models) = 3
    /\ Capable(models[1])
    /\ models[1].name # normalize_model_name(preferred)
    /\ models[2].name = normalize_model_name(preferred)
    /\ ~Capable(models[2])
    /\ models[3].name = normalize_model_name(preferred)
    /\ Capable(models[3])
    /\ preferred = << " ", "gemini-1.5-flash", " " >>
    /\ chosen.name = << "models/", "gemini-1.5-flash" >>

\* C2: when no entry both has the preferred name and supports generation but
\* some entry supports generation, the resolver returns the name of the first
\* generation-capable entry in list order.
C2_FallbackOrder ==
    (pc = "resolved" /\ ~PreferredUsable
        /\ \E i \in 1..Len(models) : Capable(models[i]))
        => \E i \in 1..Len(models) :
              /\ Capable(models[i])
              /\ \A j \in 1..(i - 1) : ~Capable(models[j])
              /\ chosen = Resolved(models[i].name)

C2_Witness ==
    /\ pc = "resolved"
    /\ preferred = << "gemini-2.5-flash" >>
    /\ Len(models) = 3
    /\ models[1].name = << "models/", "gemini-2.5-flash" >>
    /\ ~Capable(models[1])
    /\ Capable(models[2])
    /\ Capable(models[3])
    /\ models[2].name = << "models/", "gemini-1.5-flash" >>
    /\ models[3].name = << "models/", "embedding-001" >>
    /\ chosen.name = << "models/", "gemini-1.5-flash" >>

\* C3: with no generation-capable entry (the empty list included) the
\* resolver fails with NoUsableModel, and a name is returned only if an entry
\* of that name advertises generation support.
C3_NoUsableModel ==
    pc = "resolved" =>
        /\ (\A i \in 1..Len(models) : ~Capable(models[i]))
              => chosen = NoUsableModel
        /\ chosen.status = "ok"
              => \E i \in 1..Len(models) :
                    models[i].name = chosen.name /\ Capable(models[i])
        /\ chosen.status \in { "ok", "NoUsableModel" }

C3_Witness ==
    /\ pc = "resolved"
    /\ Len(models) = 2
    /\ models[1].name = normalize_model_name(preferred)
    /\ \A i \in 1..Len(models) : ~Capable(models[i])
    /\ chosen = NoUsableModel

(***************************************************************************)
(* The orchestrator, main.  Every operation main performs is appended to   *)
(* trace as [op, paper, item, ok]: the paper it is about (0 for none), the *)
(* slide or clip it produces (0 for none) and whether it succeeded.        *)
(***************************************************************************)
MAX_PAPERS == 3

SlideCount == 5

GEMINI_MODEL == << "gemini-2.5-flash" >>

\* main with the narration synthesized before the slides are composed
MainOrderNarrateFirst ==
    << "fetch", "download", "extract", "resolve", "generate",
       "scripts", "narrate", "compose", "assemble" >>

\* the calls of main, in the order of its lines 333 to 369
MainOrder ==
    << "fetch", "download", "extract", "resolve", "generate",
       "compose", "scripts", "narrate", "assemble" >>

\* the position after stage st has completed
Succ(st) ==
    LET i == CHOOSE j \in 1..Len(MainOrder) : MainOrder[j] = st
    IN  IF i = Len(MainOrder) THEN "Success" ELSE MainOrder[i + 1]

\* an orchestrator that carries the oldest entry
SelectOldest(ps) == ps[Len(ps)]

\* entry = papers[0]
SelectEntry(ps) == ps[1]

\* an orchestrator that goes on with an empty text
AfterExtractUnchecked(txt) == Succ("extract")

\* if not text: return
AfterExtract(txt) == IF txt = 0 THEN "ExtractionFailed" ELSE Succ("extract")

Event(op, paper, item, ok) == [op |-> op, paper |-> paper, item |-> item, ok |-> ok]

RawTitles == { << "A", " ", "B" >>, << " ", "A", "\n", "B", " " >> }

\* sizes of the text extract_text_from_pdf may return
TextLengths == { 0, 1, 2 }

Entry(n, c) == [name |-> << "models/", n >>, supportedGenerationMethods |-> c]

\* capability lists the service may return to a run
ServiceModelLists ==
    { << >>,
      << Entry("embedding-001", { "embedContent" }) >>,
      << Entry("gemini-2.5-flash", {}),
         Entry("gemini-1.5-flash", { "generateContent", "countTokens" }) >>,
      << Entry("gemini-1.5-flash", { "generateContent", "countTokens" }),
         Entry("gemini-2.5-flash", { "generateContent", "countTokens" }) >> }

\* texts gemini_generate_content may return to a run: two bullet lines, four
\* lines, nothing, and the rendering of an unexpected response as one line
ServiceTexts ==
    { << "-", " ", "a", "\n", "-", " ", "b", "\n" >>,
      << "-", " ", "a", "\n", "\n", "-", " ", "b", "\n", "-", " ", "c",
         "\n", MiddleDot, "d" >>,
      << " " >>,
      << "{" >> \o LongBullet \o << "}" >> }

Terminal ==
    { "NoPapers", "ExtractionFailed", "SummarizationFailed",
      "CompositionFailed", "NarrationFailed", "AssemblyFailed", "Success" }

Init ==
    /\ pc = "fetch"
    /\ papers = << >> /\ entry = NoPaper /\ pdf_path = NoPath /\ text = 0
    /\ api_key \in BOOLEAN
    /\ models = << >>
    /\ preferred = GEMINI_MODEL
    /\ chosen = [status |-> "none", name |-> << >>]
    /\ title = << >> /\ summary = << >> /\ bullets = << >>
    /\ slide_files = << >> /\ slide_scripts = << >> /\ audio_files = << >>
    /\ video = NoVideo /\ trace = << >> /\ files = {}

\* lines 333-344: fetch the feed, stop on an empty feed, select the entry
Fetch ==
    /\ pc = "fetch"
    /\ \E n \in 0..MAX_PAPERS : \E t \in RawTitles :
          papers' = [i \in 1..n |->
                        [id |-> i,
                         title |-> IF i = 1 THEN t ELSE << "C" >>]]
    /\ IF papers' = << >>
       THEN /\ pc' = "NoPapers"
            /\ trace' = Append(trace, Event("fetch", 0, 0, FALSE))
            /\ UNCHANGED << entry, title >>
       ELSE /\ entry' = SelectEntry(papers')
            /\ title' = Strip(entry'.title, Whitespace)
            /\ trace' = Append(trace, Event("fetch", 0, 0, TRUE))
            /\ pc' = Succ("fetch")
    /\ UNCHANGED << pdf_path, text, api_key, models, preferred, chosen,
                    summary, bullets, slide_files, slide_scripts,
                    audio_files, video, files >>

\* line 345, download_pdf: None on any transport error, else the file written
Download ==
    /\ pc = "download"
    /\ \E ok \in BOOLEAN :
          /\ pdf_path' = IF ok THEN [ok |-> TRUE, paper |-> entry.id] ELSE NoPath
          /\ files' = IF ok THEN files \cup { << "pdf", entry.id >> } ELSE files
          /\ trace' = Append(trace, Event("download", entry.id, 0, ok))
    /\ pc' = Succ("download")
    /\ UNCHANGED << papers, entry, text, api_key, models, preferred, chosen,
                    title, summary, bullets, slide_files, slide_scripts,
                    audio_files, video >>

\* lines 346-349, extract_text_from_pdf: "" without a path or when the
\* document does not open, else the text of its pages; main returns on ""
Extract ==
    /\ pc = "extract"
    /\ IF ~pdf_path.ok
       THEN text' = 0
       ELSE \E n \in TextLengths : text' = n
    /\ trace' = Append(trace, Event("extract", pdf_path.paper, 0, text' # 0))
    /\ pc' = AfterExtract(text')
    /\ UNCHANGED << papers, entry, pdf_path, api_key, models, preferred,
                    chosen, title, summary, bullets, slide_files,
                    slide_scripts, audio_files, video, files >>

\* line 207, pick_working_model(GEMINI_MODEL): gemini_list_models raises
\* without a key or on a transport error, the resolver raises with no usable
\* model
Resolve ==
    /\ pc = "resolve"
    /\ IF ~api_key
       THEN /\ pc' = "SummarizationFailed"
            /\ trace' = Append(trace, Event("resolve", entry.id, 0, FALSE))
            /\ UNCHANGED << models, chosen >>
       ELSE \E listed \in BOOLEAN : \E ms \in ServiceModelLists :
               IF ~listed
               THEN /\ pc' = "SummarizationFailed"
                    /\ trace' = Append(trace, Event("resolve", entry.id, 0, FALSE))
                    /\ UNCHANGED << models, chosen >>
               ELSE /\ models' = ms
                    /\ chosen' = pick_working_model(ms, preferred)
                    /\ trace' = Append(trace,
                          Event("resolve", entry.id, 0, chosen'.status = "ok"))
                    /\ pc' = IF chosen'.status = "ok" THEN Succ("resolve")
                             ELSE "SummarizationFailed"
    /\ UNCHANGED << papers, entry, pdf_path, text, api_key, preferred, title,
                    summary, bullets, slide_files, slide_scripts,
                    audio_files, video, files >>

\* line 209, gemini_generate_content: raises on a status other than 200, else
\* returns the text, stripped.  (The prompt literal of lines 188-205 stands
\* at column 0 in the source; it is read as part of gemini_summarize_ja, whose
\* parameters it uses and whose body goes on at line 207.)
Generate ==
    /\ pc = "generate"
    /\ \E status_ok \in BOOLEAN : \E raw \in ServiceTexts :
          IF ~status_ok
          THEN /\ pc' = "SummarizationFailed"
               /\ trace' = Append(trace, Event("generate", entry.id, 0, FALSE))
               /\ UNCHANGED summary
          ELSE /\ summary' = Strip(raw, Whitespace)
               /\ trace' = Append(trace, Event("generate", entry.id, 0, TRUE))
               /\ pc' = Succ("generate")
    /\ UNCHANGED << papers, entry, pdf_path, text, api_key, models, preferred,
                    chosen, title, bullets, slide_files, slide_scripts,
                    audio_files, video, files >>

\* line 356, build_slides: one pass of its loop, create_slide_image for the
\* next slide; saving the image may fail
Compose ==
    /\ pc = "compose"
    /\ LET i == Len(slide_files) + 1
           all == build_slides(title, summary)
       IN  \E ok \in BOOLEAN :
              /\ bullets' = SlideBullets(summary)
              /\ trace' = Append(trace, Event("compose", entry.id, i, ok))
              /\ IF ok
                 THEN /\ slide_files' = Append(slide_files, all[i])
                      /\ files' = files \cup { << "slide", i >> }
                      /\ pc' = IF i = Len(all) THEN Succ("compose") ELSE "compose"
                 ELSE /\ pc' = "CompositionFailed"
                      /\ UNCHANGED << slide_files, files >>
    /\ UNCHANGED << papers, entry, pdf_path, text, api_key, models, preferred,
                    chosen, title, summary, slide_scripts, audio_files, video >>

\* line 357, build_slide_scripts
Scripts ==
    /\ pc = "scripts"
    /\ slide_scripts' = build_slide_scripts(title, summary)
    /\ trace' = Append(trace, Event("scripts", entry.id, 0, TRUE))
    /\ pc' = Succ("scripts")
    /\ UNCHANGED << papers, entry, pdf_path, text, api_key, models, preferred,
                    chosen, title, summary, bullets, slide_files,
                    audio_files, video, files >>

\* line 360, generate_slide_audios: one pass of its loop, generate_tts_mp3
\* for the next script; the clip has the duration the synthesis gave it
Narrate ==
    /\ pc = "narrate"
    /\ LET i == Len(audio_files) + 1
       IN  \E ok \in BOOLEAN : \E d \in 1..MaxDur :
              /\ trace' = Append(trace, Event("narrate", entry.id, i, ok))
              /\ IF ok
                 THEN /\ audio_files' =
                            Append(audio_files, AudioFile(i, d, slide_scripts[i]))
                      /\ files' = files \cup { << "audio", i >> }
                      /\ pc' = IF i = Len(slide_scripts) THEN Succ("narrate")
                               ELSE "narrate"
                 ELSE /\ pc' = "NarrationFailed"
                      /\ UNCHANGED << audio_files, files >>
    /\ UNCHANGED << papers, entry, pdf_path, text, api_key, models, preferred,
                    chosen, title, summary, bullets, slide_files,
                    slide_scripts, video >>

\* lines 364-369, generate_video
Assemble ==
    /\ pc = "assemble"
    /\ \E encode_ok \in BOOLEAN :
          /\ video' = generate_video(slide_files, audio_files, encode_ok)
          /\ files' = IF video'.status = "written" THEN files \cup { << "video", 0 >> }
                      ELSE files
          /\ trace' = Append(trace,
                Event("assemble", entry.id, 0, video'.status = "written"))
          /\ pc' = IF video'.status = "written" THEN Succ("assemble")
                   ELSE "AssemblyFailed"
    /\ UNCHANGED << papers, entry, pdf_path, text, api_key, models, preferred,
                    chosen, title, summary, bullets, slide_files,
                    slide_scripts, audio_files >>

Next ==
    \/ Fetch
    \/ Download
    \/ Extract
    \/ Resolve
    \/ Generate
    \/ Compose
    \/ Scripts
    \/ Narrate
    \/ Assemble

Spec == Init /\ [][Next]_vars

\* the terminal state a failure of operation op ends the run in
TerminalOf(op) ==
    CASE op = "fetch" -> "NoPapers"
      [] op \in { "download", "extract" } -> "ExtractionFailed"
      [] op \in { "resolve", "generate" } -> "SummarizationFailed"
      [] op = "compose" -> "CompositionFailed"
      [] op \in { "scripts", "narrate" } -> "NarrationFailed"
      [] OTHER -> "AssemblyFailed"

Did(op) == \E i \in 1..Len(trace) : trace[i].op = op

\* C8: a fatal failure of a stage ends the run at once in that stage's
\* terminal state and nothing acts after it (a failed retrieval is followed
\* only by the extraction that returns no text); when retrieval fails or
\* extraction yields no text the run ends in ExtractionFailed with no
\* model-list or generation request and no slide, audio or video artifact;
\* and no operation is performed twice.
C8_FailureStops ==
    /\ \A i \in 1..Len(trace) :
          ~trace[i].ok =>
             IF trace[i].op = "download"
             THEN i < Len(trace) =>
                     /\ i + 1 = Len(trace)
                     /\ trace[i + 1].op = "extract"
                     /\ ~trace[i + 1].ok
             ELSE /\ i = Len(trace)
                  /\ pc = TerminalOf(trace[i].op)
    /\ (\E i \in 1..Len(trace) : trace[i].op = "extract" /\ ~trace[i].ok)
          => /\ pc = "ExtractionFailed"
             /\ \A op \in { "resolve", "generate", "compose", "scripts",
                            "narrate", "assemble" } : ~Did(op)
             /\ \A f \in files : f[1] = "pdf"
             /\ slide_files = << >> /\ audio_files = << >> /\ video = NoVideo
    /\ (Did("extract") /\ text = 0) => pc = "ExtractionFailed"
    /\ \A i, j \in 1..Len(trace) :
          (trace[i].op = trace[j].op /\ trace[i].item = trace[j].item) => i = j
    /\ pc \in Terminal \ { "Success" } =>
          /\ trace # << >>
          /\ ~trace[Len(trace)].ok
          /\ pc = TerminalOf(trace[Len(trace)].op)

C8_Witness ==
    /\ pc = "ExtractionFailed"
    /\ Len(papers) = 2
    /\ ~pdf_path.ok
    /\ Len(trace) = 3
    /\ trace[2] = Event("download", 1, 0, FALSE)
    /\ trace[3] = Event("extract", 0, 0, FALSE)
    /\ files = {}

Steps(op, n) == [i \in 1..n |-> << op, i >>]

\* the operations of a complete run of main, in order
CompleteRun ==
    << << "fetch", 0 >>, << "download", 0 >>, << "extract", 0 >>,
       << "resolve", 0 >>, << "generate", 0 >> >>
    \o Steps("compose", SlideCount)
    \o << << "scripts", 0 >> >>
    \o Steps("narrate", SlideCount)
    \o << << "assemble", 0 >> >>

\* C9 as stated: in every run that reaches assembly every narration clip is
\* synthesized before any slide image is composed, and the model is resolved
\* before the summarization request is sent.
C9_NarrateBeforeCompose ==
    Did("assemble") =>
        /\ \A i, j \in 1..Len(trace) :
              (trace[i].op = "narrate" /\ trace[j].op = "compose") => i < j
        /\ \A i, j \in 1..Len(trace) :
              (trace[i].op = "resolve" /\ trace[j].op = "generate") => i < j

\* C9, amended: in every run that reaches assembly the stages occur in
\* exactly the order fetch, extract, resolve model, summarize, compose,
\* narrate, assemble: every slide image is composed before any narration clip
\* is synthesized, and the model is resolved before the summarization request
\* is sent.
C9_StageOrder ==
    Did("assemble") =>
        /\ [i \in 1..Len(trace) |-> << trace[i].op, trace[i].item >>]
              = CompleteRun
        /\ \A i, j \in 1..Len(trace) :
              (trace[i].op = "compose" /\ trace[j].op = "narrate") => i < j
        /\ \A i, j \in 1..Len(trace) :
              (trace[i].op = "resolve" /\ trace[j].op = "generate") => i < j

C9_Witness ==
    /\ pc = "Success"
    /\ Did("assemble")
    /\ Len(slide_files) = SlideCount
    /\ Len(audio_files) = SlideCount
    /\ video.status = "written"

\* C10: whatever the feed returns, only its first record is downloaded,
\* extracted, summarized or rendered, and when that record fails at
\* retrieval or extraction the run ends with no other record tried.
C10_OnlyFirst ==
    papers # << >> =>
        /\ entry = papers[1]
        /\ title = Strip(papers[1].title, Whitespace)
        /\ \A i \in 1..Len(trace) :
              trace[i].op # "fetch" =>
                 \/ trace[i].paper = papers[1].id
                 \/ trace[i] = Event("extract", 0, 0, FALSE)
        /\ pdf_path.ok => pdf_path.paper = papers[1].id
        /\ \A f \in files : f[1] = "pdf" => f[2] = papers[1].id
        /\ Cardinality({ i \in 1..Len(trace) : trace[i].op = "download" }) <= 1
        /\ Cardinality({ i \in 1..Len(trace) : trace[i].op = "extract" }) <= 1
        /\ pc = "ExtractionFailed" => Len(trace) = 3

C10_Witness ==
    /\ pc = "ExtractionFailed"
    /\ Len(papers) = MAX_PAPERS
    /\ pdf_path.ok
    /\ text = 0
    /\ trace[2] = Event("download", 1, 0, TRUE)
    /\ files = { << "pdf", 1 >> }

\* the bullet shown on point slide k: the slide's text after its heading line
ShownBullet(k) ==
    LET t == slide_files[k + 1].text
        n == FirstNewline(t, 1)
    IN  SubSeq(t, n + 1, Len(t))

\* the bullet spoken in clip k + 1: its script between the announcement of
\* the point and the closing full stop
SpokenBullet(k) ==
    LET t == audio_files[k + 1].text
    IN  SubSeq(t, 4, Len(t) - 1)

\* C11: a run produces exactly one audio clip per slide image, and for
\* k = 1..3 the bullet spoken in clip k+1 is the text of the bullet shown on
\* point slide k, also when that bullet is the padded placeholder.
C11_ClipMatchesSlide ==
    pc \in { "assemble", "Success", "AssemblyFailed" } =>
        /\ Len(audio_files) = Len(slide_files)
        /\ \A i \in 1..Len(audio_files) : audio_files[i].text = slide_scripts[i]
        /\ \A k \in 1..3 : SpokenBullet(k) = ShownBullet(k)

=============================================================================
